---- MODULE Spec2Model ----
(***************************************************************************)
(* Software catalog dashboard (src/app.py and src/app_stable.py): the      *)
(* column normalisation, the cached load, the search / filter / detail     *)
(* logic of one script run, and the session state kept between runs.       *)
(*                                                                         *)
(* A Python string is a sequence of one-character strings, so that strip,  *)
(* lower, whitespace collapsing, substring search and comparison are       *)
(* computed rather than assumed.  A missing cell (pandas NaN) and Python's *)
(* None are the one-element sequences NaN and None, which no string is.    *)
(***************************************************************************)
EXTENDS Integers, Sequences, FiniteSets, TLC

VARIABLES
  prog,               \* which script runs: "app" (app.py) or "stable" (app_stable.py)
  hdrs, cols, npc,    \* header normalisation: raw headers, columns, progress
  frame, listing,     \* unique_software: its argument and its result
  secrets,            \* the keys st.secrets holds
  clock,              \* the time the cache's timer shows
  cache,              \* st.cache_data's entry for the loader call
  search_text,        \* the text in the search box
  selected_software,  \* st.session_state.selected_software
  selected_category,  \* st.session_state.selected_category (app_stable.py)
  out,                \* what the last interaction's final run rendered
  ev,                 \* the interaction that caused the last run
  fetches,            \* fetches made during the last interaction
  remote,             \* what the remote answered to the last run's fetch, if it made one
  rec, links          \* download links: a record's URL cells and what is rendered for them

\* ------------------------------------------------------------------ text

UpperCase == <<"A","B","C","D","E","F","G","H","I","J","K","L","M","N","O","P","Q","R","S","T","U","V","W","X","Y","Z">>
LowerCase == <<"a","b","c","d","e","f","g","h","i","j","k","l","m","n","o","p","q","r","s","t","u","v","w","x","y","z">>
\* the characters of the model in code-point order (str comparison, sort_values)
AsciiOrder == <<"\t"," ","(",")","-",".","/","0","1","2","3","4","5","6","7","8","9",":","A","B","C","D","E","F","G","H","I","J","K","L","M","N","O","P","Q","R","S","T","U","V","W","X","Y","Z","\\","a","b","c","d","e","f","g","h","i","j","k","l","m","n","o","p","q","r","s","t","u","v","w","x","y","z">>
WhiteSpace == {" ", "\t"}

\* The value of an expression, computed once: Pick({F(x) : x \in {e}}) is F(e).
Pick(S) == CHOOSE v \in S : TRUE

NaN == <<"NaN">>
None == <<"None">>

\* str.lower and ord, one character at a time, tabulated over the model's characters
LowerOf ==
  [c \in {AsciiOrder[i] : i \in DOMAIN AsciiOrder} |->
     IF \E i \in DOMAIN UpperCase : UpperCase[i] = c
     THEN LowerCase[CHOOSE i \in DOMAIN UpperCase : UpperCase[i] = c]
     ELSE c]

OrdOf ==
  [c \in {AsciiOrder[i] : i \in DOMAIN AsciiOrder} |->
     CHOOSE i \in DOMAIN AsciiOrder : AsciiOrder[i] = c]

Lower(c) == LowerOf[c]

Ord(c) == OrdOf[c]

StrLower(s) == [i \in 1..Len(s) |-> Lower(s[i])] \o <<>>

RECURSIVE LStrip(_)
LStrip(s) ==
  IF s # <<>> /\ s[1] \in WhiteSpace THEN LStrip(Tail(s)) ELSE s

RECURSIVE RStrip(_)
RStrip(s) ==
  IF s # <<>> /\ s[Len(s)] \in WhiteSpace THEN RStrip(SubSeq(s, 1, Len(s) - 1)) ELSE s

Strip(s) == RStrip(LStrip(s))

\* re.sub(r"\s+", " ", s): every maximal run of whitespace becomes one space
RECURSIVE CollapseWS(_)
CollapseWS(s) ==
  IF s = <<>> THEN <<>>
  ELSE IF s[1] \in WhiteSpace THEN <<" ">> \o CollapseWS(LStrip(Tail(s)))
  ELSE <<s[1]>> \o CollapseWS(Tail(s))

StartsWith(s, p) == Len(p) <= Len(s) /\ SubSeq(s, 1, Len(p)) = p

\* lexicographic order on code points (Python's str <)
RECURSIVE StrLess(_, _)
StrLess(a, b) ==
  IF b = <<>> THEN FALSE
  ELSE IF a = <<>> THEN TRUE
  ELSE IF a[1] # b[1] THEN Ord(a[1]) < Ord(b[1])
  ELSE StrLess(Tail(a), Tail(b))

\* ------------------------------------------------- header keys and names

K_software == <<"s","o","f","t","w","a","r","e">>
K_software_name == <<"s","o","f","t","w","a","r","e"," ","n","a","m","e">>
K_component == <<"c","o","m","p","o","n","e","n","t">>
K_name == <<"n","a","m","e">>
K_item == <<"i","t","e","m">>
K_asset == <<"a","s","s","e","t">>
K_module == <<"m","o","d","u","l","e">>
K_service == <<"s","e","r","v","i","c","e">>
K_application == <<"a","p","p","l","i","c","a","t","i","o","n">>
K_app_name == <<"a","p","p"," ","n","a","m","e">>
K_product == <<"p","r","o","d","u","c","t">>
K_version == <<"v","e","r","s","i","o","n">>
K_latest_version == <<"l","a","t","e","s","t"," ","v","e","r","s","i","o","n">>
K_current_version == <<"c","u","r","r","e","n","t"," ","v","e","r","s","i","o","n">>
K_latest_version_as_of == <<"l","a","t","e","s","t"," ","v","e","r","s","i","o","n"," ","(","a","s"," ","o","f">>
K_category == <<"c","a","t","e","g","o","r","y">>
K_license == <<"l","i","c","e","n","s","e">>
K_windows_download_url == <<"w","i","n","d","o","w","s"," ","d","o","w","n","l","o","a","d"," ","u","r","l">>
K_macos_download_url == <<"m","a","c","o","s"," ","d","o","w","n","l","o","a","d"," ","u","r","l">>
K_linux_download_url == <<"l","i","n","u","x"," ","d","o","w","n","l","o","a","d"," ","u","r","l">>
K_notes == <<"n","o","t","e","s">>
K_description == <<"d","e","s","c","r","i","p","t","i","o","n">>
N_Software == <<"S","o","f","t","w","a","r","e">>
N_Version == <<"V","e","r","s","i","o","n">>
N_Category == <<"C","a","t","e","g","o","r","y">>
N_License == <<"L","i","c","e","n","s","e">>
N_WindowsURL == <<"W","i","n","d","o","w","s","U","R","L">>
N_MacURL == <<"M","a","c","U","R","L">>
N_LinuxURL == <<"L","i","n","u","x","U","R","L">>
N_Description == <<"D","e","s","c","r","i","p","t","i","o","n">>
S_nan == <<"n","a","n">>
S_None == <<"N","o","n","e">>
S_All == <<"A","l","l">>

\* ------------------------------------------------------ column coercion

normalize_col(name) == CollapseWS(StrLower(Strip(name)))

normalize_col_stable(name) == StrLower(Strip(CollapseWS(name)))

\* df.rename(columns={orig: new}): every column named orig is renamed
Rename(cs, orig, new) ==
  [i \in DOMAIN cs |-> IF cs[i] = orig THEN new ELSE cs[i]] \o <<>>

\* df.columns = [str(c).strip() for c in df.columns]
StripColumns(cs) == [i \in DOMAIN cs |-> Strip(cs[i])] \o <<>>

LastIndex(S) == CHOOSE i \in S : \A j \in S : j <= i
FirstIndex(S) == CHOOSE i \in S : \A j \in S : i <= j

\* norm_map = {normalize_col(c): c for c in df.columns}, kept as the list of the
\* columns' normalised keys: a later column with the same key replaces an earlier
NormKeys(cs) == [i \in DOMAIN cs |-> normalize_col(cs[i])] \o <<>>
NormKeysStable(cs) == [i \in DOMAIN cs |-> normalize_col_stable(cs[i])] \o <<>>

\* key in norm_map
InNormMap(nk, key) == \E i \in DOMAIN nk : nk[i] = key
\* norm_map[key]
NormMap(cs, nk, key) == cs[LastIndex({i \in DOMAIN nk : nk[i] = key})]

FallbackKeys ==
  <<K_name, K_item, K_asset, K_module, K_service, K_application, K_app_name, K_product>>

FallbackKeysStable == <<K_name, K_product, K_application, K_app_name, K_component>>

\* the first of the keys, in their order, that norm_map holds, 0 when none
FirstKeyIn(nk, keys) ==
  IF \E k \in DOMAIN keys : InNormMap(nk, keys[k])
  THEN FirstIndex({k \in DOMAIN keys : InNormMap(nk, keys[k])})
  ELSE 0

\* the header coerce_to_software_column takes as the identity column, or None
IdentitySource(cs) ==
  Pick({IF InNormMap(nk, K_software) THEN NormMap(cs, nk, K_software)
        ELSE IF InNormMap(nk, K_component) THEN NormMap(cs, nk, K_component)
        ELSE Pick({IF k = 0 THEN None ELSE NormMap(cs, nk, FallbackKeys[k]) :
                     k \in {FirstKeyIn(nk, FallbackKeys)}}) :
          nk \in {NormKeys(cs)}})

coerce_to_software_column(cs) ==
  Pick({IF orig = None \/ orig = N_Software THEN cs ELSE Rename(cs, orig, N_Software) :
          orig \in {IdentitySource(cs)}})

\* the header coerce_to_oss_columns takes as the identity column, or None
IdentitySourceStable(cs) ==
  Pick({IF InNormMap(nk, K_software_name) THEN NormMap(cs, nk, K_software_name)
        ELSE IF InNormMap(nk, K_software) THEN NormMap(cs, nk, K_software)
        ELSE Pick({IF k = 0 THEN None ELSE NormMap(cs, nk, FallbackKeysStable[k]) :
                     k \in {FirstKeyIn(nk, FallbackKeysStable)}}) :
          nk \in {NormKeysStable(cs)}})

VersionKeys == <<K_version, K_latest_version, K_current_version>>

find_version_column(cs) ==
  Pick({IF \E i \in DOMAIN nk : StartsWith(nk[i], K_latest_version_as_of)
        THEN cs[FirstIndex({i \in DOMAIN nk : StartsWith(nk[i], K_latest_version_as_of)})]
        ELSE Pick({IF k = 0 THEN None
                   ELSE cs[FirstIndex({i \in DOMAIN nk : nk[i] = VersionKeys[k]})] :
                     k \in {FirstKeyIn(nk, VersionKeys)}}) :
          nk \in {NormKeysStable(cs)}})

\* one "if key in cols_norm_map: df = df.rename(...)" step; cols_norm_map (nk) is
\* built from the original columns, the rename acts on the current ones
RenameIfKey(cur, original, nk, key, new) ==
  IF InNormMap(nk, key) THEN Rename(cur, NormMap(original, nk, key), new) ELSE cur

\* the "Version" step of coerce_to_oss_columns
RenameVersion(cur) ==
  Pick({IF ver = None THEN cur ELSE Rename(cur, ver, N_Version) :
          ver \in {find_version_column(cur)}})

\* the "Description" step of coerce_to_oss_columns
RenameDescription(cur, original, nk) ==
  IF InNormMap(nk, K_notes) THEN Rename(cur, NormMap(original, nk, K_notes), N_Description)
  ELSE RenameIfKey(cur, original, nk, K_description, N_Description)

coerce_to_oss_columns(cs) ==
  Pick({Pick({Pick({Pick({Pick({Pick({Pick({Pick({
      RenameDescription(c7, cs, nk) :
        c7 \in {RenameIfKey(c6, cs, nk, K_linux_download_url, N_LinuxURL)}}) :
        c6 \in {RenameIfKey(c5, cs, nk, K_macos_download_url, N_MacURL)}}) :
        c5 \in {RenameIfKey(c4, cs, nk, K_windows_download_url, N_WindowsURL)}}) :
        c4 \in {RenameIfKey(c3, cs, nk, K_license, N_License)}}) :
        c3 \in {RenameIfKey(c2, cs, nk, K_category, N_Category)}}) :
        c2 \in {RenameVersion(c1)}}) :
        c1 \in {IF src = None THEN cs ELSE Rename(cs, src, N_Software)}}) :
    src \in {IdentitySourceStable(cs)}, nk \in {NormKeysStable(cs)}})

Programs == {"app", "stable"}

Coerce(p, cs) ==
  IF p = "app" THEN coerce_to_software_column(cs) ELSE coerce_to_oss_columns(cs)

\* ------------------------------------------------------------- tables

\* a DataFrame: the column names and the rows, each row one cell per column;
\* a cell is a string, or NaN where the sheet's cell is empty
EmptyTable == [cols |-> <<>>, rows |-> <<>>]

\* df[name]: the first column of that name, 0 when there is none
ColIndex(cs, name) ==
  IF \E i \in DOMAIN cs : cs[i] = name
  THEN CHOOSE i \in DOMAIN cs : cs[i] = name /\ \A j \in DOMAIN cs : cs[j] = name => i <= j
  ELSE 0

\* df[name] as the list of its cells, None where the table lacks the column
\* (row.get's default; app_stable.py fills the columns it expects with None)
Column(df, name) ==
  Pick({[r \in 1..Len(df.rows) |-> IF k = 0 THEN None ELSE df.rows[r][k]] \o <<>> :
          k \in {ColIndex(df.cols, name)}})

IsNA(v) == v = NaN \/ v = None

\* str(v) / astype(str)
AsStr(v) == IF v = NaN THEN S_nan ELSE IF v = None THEN S_None ELSE v

\* Python truthiness of a session value: None and "" are false, NaN is true
Truthy(v) == v # None /\ v # <<>>

Range(s) == {s[i] : i \in DOMAIN s}

RECURSIVE FilterSeq(_, _)
\* the elements of sequence s whose value is in set keep, in order (df[mask])
FilterSeq(s, keep) ==
  IF s = <<>> THEN <<>>
  ELSE IF s[1] \in keep THEN <<s[1]>> \o FilterSeq(Tail(s), keep)
  ELSE FilterSeq(Tail(s), keep)

\* the index of a frame of n rows
RowIndex(n) == [i \in 1..n |-> i] \o <<>>

\* ------------------------------------------------ regular expressions

\* the characters re.escape puts a backslash before, among the model's characters
SpecialChars == {"(", ")", "-", ".", " ", "\t", "\\"}

RECURSIVE re_escape(_)
re_escape(s) ==
  IF s = <<>> THEN <<>>
  ELSE (IF s[1] \in SpecialChars THEN <<"\\", s[1]>> ELSE <<s[1]>>) \o re_escape(Tail(s))

\* a compiled pattern: a sequence of tokens, <<"lit", c>> or <<"any", ".">>;
\* of the metacharacters the matcher interprets "." and the escaping backslash
RECURSIVE re_compile(_)
re_compile(p) ==
  IF p = <<>> THEN <<>>
  ELSE IF p[1] = "\\" /\ Len(p) >= 2 THEN <<(<<"lit", p[2]>>)>> \o re_compile(SubSeq(p, 3, Len(p)))
  ELSE IF p[1] = "." THEN <<(<<"any", ".">>)>> \o re_compile(Tail(p))
  ELSE <<(<<"lit", p[1]>>)>> \o re_compile(Tail(p))

TokenMatches(tok, ch, ignorecase) ==
  \/ tok[1] = "any"
  \/ tok[1] = "lit" /\ (IF ignorecase THEN Lower(tok[2]) = Lower(ch) ELSE tok[2] = ch)

\* re.search(pattern, text)
re_search(toks, txt, ignorecase) ==
  \E i \in 0..(Len(txt) - Len(toks)) :
    \A j \in 1..Len(toks) : TokenMatches(toks[j], txt[i + j], ignorecase)

\* Series.str.contains(pat, case=...) for one cell: a regular-expression search
str_contains(txt, pat, ignorecase) ==
  \E toks \in {re_compile(pat)} : \E t \in {txt} : re_search(toks, t, ignorecase)

\* ---------------------------------------------------------------- sort

\* sort_values order on the Software cells: strings by code point, NaN last
KeyLess(a, b) ==
  IF IsNA(a) THEN FALSE ELSE IF IsNA(b) THEN TRUE ELSE StrLess(a, b)

RECURSIVE InsertSorted(_, _, _)
\* x goes before the first element strictly greater than it
InsertSorted(ids, s, x) ==
  IF s = <<>> THEN <<x>>
  ELSE IF KeyLess(ids[x], ids[s[1]]) THEN <<x>> \o s
  ELSE <<s[1]>> \o InsertSorted(ids, Tail(s), x)

RECURSIVE SortBySoftware(_, _)
\* sort_values(by="Software", kind="mergesort") of the rows idx, ids being the
\* Software cells: stable, so its result is the one ordering that keeps equal
\* keys in their given order
SortBySoftware(ids, idx) ==
  IF idx = <<>> THEN <<>>
  ELSE Pick({InsertSorted(ids, front, idx[Len(idx)]) :
               front \in {SortBySoftware(ids, SubSeq(idx, 1, Len(idx) - 1))}})

\* ------------------------------------------------------ source and cache

SecretKeys == {"DATA_URL", "GITHUB_OWNER", "GITHUB_REPO", "GITHUB_PATH"}

\* a selection that takes a source only when the other one is not configured
DataSourceExclusive(sec) ==
  IF "DATA_URL" \in sec /\ ~({"GITHUB_OWNER", "GITHUB_REPO", "GITHUB_PATH"} \subseteq sec)
  THEN "url"
  ELSE IF "DATA_URL" \notin sec /\ {"GITHUB_OWNER", "GITHUB_REPO", "GITHUB_PATH"} \subseteq sec
  THEN "github_api"
  ELSE "none"

\* DATA_SOURCE as the script derives it from st.secrets
DataSource(sec) ==
  IF "DATA_URL" \in sec THEN "url"
  ELSE IF {"GITHUB_OWNER", "GITHUB_REPO", "GITHUB_PATH"} \subseteq sec THEN "github_api"
  ELSE "none"

\* @st.cache_data(ttl=300)
TTL == 300

\* the one entry of the loader's cache (its key, the secrets, never changes)
EmptyCache == [full |-> FALSE, table |-> EmptyTable, at |-> 0]

\* a cache without the ttl: an entry, once stored, is served for ever
CacheNeverExpires(c, now) == c.full

\* an entry is served while its age is below the ttl
CacheValid(c, now) == c.full /\ now < c.at + TTL

\* what a fetch can raise: requests.get, raise_for_status, pd.read_excel, and for
\* the contents API the "Unexpected GitHub API response" RuntimeError
FetchFailures(src) ==
  IF src = "github_api" THEN {"transport", "status", "workbook", "shape"}
  ELSE {"transport", "status", "workbook"}

NoOutcome == [kind |-> "unused", table |-> EmptyTable]

\* the results the remote can give to a fetch made now, none when none is made
FetchOutcomes(T, src, c, now) ==
  IF src = "none" \/ CacheValid(c, now) THEN {NoOutcome}
  ELSE {[kind |-> "ok", table |-> t] : t \in T}
       \cup {[kind |-> k, table |-> EmptyTable] : k \in FetchFailures(src)}

\* a loader that answers a failed fetch with the entry it still holds
LoadStaleFallback(src, c, now, fo) ==
  IF src = "none"
  THEN [ok |-> FALSE, df |-> EmptyTable, cache |-> c, fetches |-> 0, msg |-> "noconfig"]
  ELSE IF CacheValid(c, now)
  THEN [ok |-> TRUE, df |-> c.table, cache |-> c, fetches |-> 0, msg |-> "none"]
  ELSE IF fo.kind = "ok"
  THEN [ok |-> TRUE, df |-> fo.table,
        cache |-> [full |-> TRUE, table |-> fo.table, at |-> now],
        fetches |-> 1, msg |-> "none"]
  ELSE IF c.full
  THEN [ok |-> TRUE, df |-> c.table, cache |-> c, fetches |-> 1, msg |-> "none"]
  ELSE [ok |-> FALSE, df |-> EmptyTable, cache |-> c, fetches |-> 1, msg |-> fo.kind]

\* the cached call load_excel_from_public_url / load_excel_from_github_api inside
\* the script's try/except: a hit returns the entry, a miss fetches once and
\* stores the result, an exception stores nothing
Load(src, c, now, fo) ==
  IF src = "none"
  THEN [ok |-> FALSE, df |-> EmptyTable, cache |-> c, fetches |-> 0, msg |-> "noconfig"]
  ELSE IF CacheValid(c, now)
  THEN [ok |-> TRUE, df |-> c.table, cache |-> c, fetches |-> 0, msg |-> "none"]
  ELSE IF fo.kind = "ok"
  THEN [ok |-> TRUE, df |-> fo.table,
        cache |-> [full |-> TRUE, table |-> fo.table, at |-> now],
        fetches |-> 1, msg |-> "none"]
  ELSE [ok |-> FALSE, df |-> EmptyTable, cache |-> c, fetches |-> 1, msg |-> fo.kind]

\* a Refresh button that reruns without clearing anything
ClearNothing(c) == c

\* st.cache_data.clear()
ClearCache(c) == EmptyCache

\* ----------------------------------------------------------- script runs

\* what one run rendered: the error (if any), the grid's cards as row indices in
\* display order, the caption's counts, the details panel and its records
ErrOut(err, msg) ==
  [err |-> err, msg |-> msg, df |-> EmptyTable, grid |-> FALSE, cards |-> <<>>,
   shown |-> 0, total |-> 0, panel |-> "off", detail |-> <<>>, clear |-> FALSE,
   chips |-> {}, footer |-> FALSE]

NoEvent == [kind |-> "none", idx |-> 0, cat |-> <<>>]

\* a script without the check for the "Software" column
IdentityNeverMissing(cs) == FALSE

\* if "Software" not in df.columns: st.error(...); st.stop()
IdentityMissing(cs) == N_Software \notin Range(cs)

Stopped(c, sess, o, n) ==
  [cache |-> c, sess |-> sess, out |-> o, fetches |-> n, rerun |-> FALSE]

\* app.py "Search and Grid": the rows kept by the query, as row indices
AppMask(ids, query) ==
  IF query # <<>>
  THEN FilterSeq(RowIndex(Len(ids)),
                 {r \in DOMAIN ids : str_contains(AsStr(ids[r]), re_escape(query), TRUE)})
  ELSE RowIndex(Len(ids))

\* a selection that is also dropped when its record is not among the filtered rows
AppSelectedDropsHidden(ids, query, filtered, sess, e) ==
  Pick({IF /\ ~Truthy(sel1)
           /\ query # <<>>
           /\ Cardinality({ids[r] : r \in Range(filtered)}) = 1
        THEN ids[filtered[1]]
        ELSE IF \E r \in Range(filtered) : AsStr(ids[r]) = AsStr(sel1) THEN sel1
        ELSE None :
          sel1 \in {IF e.kind = "view" /\ e.idx \in Range(filtered)
                    THEN AsStr(ids[e.idx])
                    ELSE sess.selected_software}})

\* the selection after the cards' buttons and the details panel's auto-select
AppSelected(ids, query, filtered, sess, e) ==
  Pick({IF /\ ~Truthy(sel1)
           /\ query # <<>>
           /\ Cardinality({ids[r] : r \in Range(filtered)}) = 1
        THEN ids[filtered[1]]
        ELSE sel1 :
          sel1 \in {IF e.kind = "view" /\ e.idx \in Range(filtered)
                    THEN AsStr(ids[e.idx])
                    ELSE sess.selected_software}})

\* detail_df = filtered[match_mask]
AppDetail(ids, filtered, selected) ==
  IF Truthy(selected)
  THEN FilterSeq(filtered,
                 {r \in Range(filtered) : StrLower(AsStr(ids[r])) = StrLower(AsStr(selected))})
  ELSE <<>>

\* app.py from "Search and Grid" to the footer
AppBrowse(ld, df, ids, query, sess, e) ==
  Pick({Pick({Pick({
      [cache |-> ld.cache,
       sess |-> [sess EXCEPT !.selected_software = selected],
       out |-> [err |-> "none", msg |-> "none", df |-> df, grid |-> TRUE,
                cards |-> filtered, shown |-> Len(filtered), total |-> Len(df.rows),
                panel |-> IF ~Truthy(selected) THEN "hint"
                          ELSE IF Len(detail) >= 1 THEN "detail" ELSE "nodetails",
                detail |-> detail, clear |-> Truthy(selected), chips |-> {},
                footer |-> TRUE],
       fetches |-> ld.fetches, rerun |-> FALSE] :
        detail \in {AppDetail(ids, filtered, selected)}}) :
      selected \in {AppSelected(ids, query, filtered, sess, e)}}) :
    filtered \in {SortBySoftware(ids, AppMask(ids, query))}})

\* app.py "Prepare DataFrame" on the loaded frame, then the rest of the script
AppPrepare(ld, sess, e) ==
  Pick({IF IdentityMissing(cs)
        THEN Stopped(ld.cache, sess, ErrOut("identity", "none"), ld.fetches)
        ELSE Pick({AppBrowse(ld, df, ids, query, sess, e) :
                     df \in {[cols |-> cs, rows |-> ld.df.rows]},
                     ids \in {Column([cols |-> cs, rows |-> ld.df.rows], N_Software)},
                     query \in {Strip(sess.text)}}) :
          cs \in {coerce_to_software_column(StripColumns(ld.df.cols))}})

\* app.py from "Load data" to the footer, for one widget event
AppScript(src, now, c, sess, e, fo) ==
  Pick({IF ~ld.ok THEN Stopped(ld.cache, sess, ErrOut("load", ld.msg), ld.fetches)
        ELSE AppPrepare(ld, sess, e) :
          ld \in {Load(src, c, now, fo)}})

\* app_stable.py: the chips' labels, "All" and the stripped categories
StableChips(cats) ==
  {S_All} \cup {Strip(AsStr(cats[r])) : r \in {x \in DOMAIN cats : ~IsNA(cats[x])}}

\* app_stable.py "Result": detail_df = df[sel_mask].head(1)
StableDetail(ids, selected) ==
  IF Truthy(selected)
  THEN Pick({SubSeq(m, 1, 1) :
               m \in {FilterSeq(RowIndex(Len(ids)),
                        {r \in DOMAIN ids :
                           StrLower(AsStr(ids[r])) = StrLower(AsStr(selected))})}})
  ELSE <<>>

\* app_stable.py "Filtering logic": category filter, then text search
StableMask(ids, cats, category, q) ==
  Pick({IF q # <<>>
        THEN FilterSeq(by_cat,
               {r \in DOMAIN ids : str_contains(StrLower(AsStr(ids[r])), re_escape(q), FALSE)})
        ELSE by_cat :
          by_cat \in {IF Truthy(category) /\ category # S_All
                      THEN FilterSeq(RowIndex(Len(ids)),
                             {r \in DOMAIN cats :
                                StrLower(Strip(AsStr(cats[r]))) = StrLower(Strip(category))})
                      ELSE RowIndex(Len(ids))}})

\* app_stable.py from the session state to the footer; a pressed Details button
\* sets the selection and ends the run in safe_rerun()
StableBrowse(ld, df, ids, cats, sess, e) ==
  Pick({Pick({Pick({
      [cache |-> ld.cache,
       sess |-> [sess EXCEPT !.selected_category = category,
                             !.selected_software =
                                IF e.kind = "view" /\ e.idx \in Range(filtered)
                                THEN AsStr(ids[e.idx]) ELSE @],
       out |-> [err |-> "none", msg |-> "none", df |-> df, grid |-> TRUE,
                cards |-> filtered, shown |-> Len(filtered), total |-> Len(df.rows),
                panel |-> IF ~Truthy(sess.selected_software) THEN "hint"
                          ELSE IF detail # <<>> THEN "detail" ELSE "nodetails",
                detail |-> detail, clear |-> FALSE, chips |-> chips,
                footer |-> TRUE],
       fetches |-> ld.fetches,
       rerun |-> e.kind = "view" /\ e.idx \in Range(filtered)] :
        filtered \in {SortBySoftware(ids,
                        StableMask(ids, cats, category, StrLower(Strip(sess.text))))}}) :
      category \in {IF e.kind = "chip" /\ e.cat \in chips THEN e.cat
                    ELSE sess.selected_category}}) :
    chips \in {StableChips(cats)},
    detail \in {StableDetail(ids, sess.selected_software)}})

\* app_stable.py "Load and normalize data" on the loaded frame, then the rest
StablePrepare(ld, sess, e) ==
  Pick({IF IdentityMissing(cs)
        THEN Stopped(ld.cache, sess, ErrOut("identity", "none"), ld.fetches)
        ELSE Pick({StableBrowse(ld, df, ids, cats, sess, e) :
                     df \in {[cols |-> cs, rows |-> ld.df.rows]},
                     ids \in {Column([cols |-> cs, rows |-> ld.df.rows], N_Software)},
                     cats \in {Column([cols |-> cs, rows |-> ld.df.rows], N_Category)}}) :
          cs \in {coerce_to_oss_columns(StripColumns(ld.df.cols))}})

\* app_stable.py from the source check to the footer, for one widget event
StableScript(src, now, c, sess, e, fo) ==
  Pick({IF ~ld.ok
        THEN Stopped(ld.cache, sess,
                     ErrOut(IF ld.msg = "noconfig" THEN "config" ELSE "load", ld.msg),
                     ld.fetches)
        ELSE StablePrepare(ld, sess, e) :
          ld \in {Load(src, c, now, fo)}})

Script(p, src, now, c, sess, e, fo) ==
  IF p = "app" THEN AppScript(src, now, c, sess, e, fo)
  ELSE StableScript(src, now, c, sess, e, fo)

\* ------------------------------------------------------- unique_software

\* a listing that keeps every occurrence
KeepDuplicates(s) == s

RECURSIVE DropDuplicates(_)
\* Series.drop_duplicates(): the first occurrence of each value, in order
DropDuplicates(s) ==
  IF s = <<>> THEN <<>>
  ELSE Pick({IF s[Len(s)] \in Range(front) THEN front ELSE Append(front, s[Len(s)]) :
               front \in {DropDuplicates(SubSeq(s, 1, Len(s) - 1))}})

RECURSIVE InsertString(_, _)
InsertString(s, x) ==
  IF s = <<>> THEN <<x>>
  ELSE IF StrLess(x, s[1]) THEN <<x>> \o s
  ELSE <<s[1]>> \o InsertString(Tail(s), x)

RECURSIVE SortStrings(_)
\* Series.sort_values(kind="mergesort") on strings: stable, ascending
SortStrings(s) ==
  IF s = <<>> THEN <<>>
  ELSE Pick({InsertString(front, s[Len(s)]) :
               front \in {SortStrings(SubSeq(s, 1, Len(s) - 1))}})

RECURSIVE StrippedIdentities(_)
\* .dropna().astype(str).map(str.strip).replace("", pd.NA).dropna() on the cells
StrippedIdentities(ids) ==
  IF ids = <<>> THEN <<>>
  ELSE (IF IsNA(ids[1]) \/ Strip(AsStr(ids[1])) = <<>> THEN <<>>
        ELSE <<Strip(AsStr(ids[1]))>>) \o StrippedIdentities(Tail(ids))

unique_software(df) ==
  Pick({SortStrings(u) :
          u \in {DropDuplicates(StrippedIdentities(Column(df, N_Software)))}})

\* ------------------------------------------------------------ the inputs

I_Widget == <<"W","i","d","g","e","t">>
I_widget == <<"w","i","d","g","e","t">>
I_Gadget == <<"G","a","d","g","e","t">>
I_Wid_et == <<"W","i","d",".","e","t">>
I_blank == <<" ">>
I_Widget_sp == <<"W","i","d","g","e","t"," ">>
C_Util == <<"U","t","i","l">>
C_Dev == <<"D","e","v">>
C_util_sp == <<"u","t","i","l"," ">>
Q_wid == <<"w","i","d">>
Q_GAD == <<" ","G","A","D">>
Q_d_e == <<"d",".","e">>
Q_na == <<"n","a">>
H_Software == <<"S","o","f","t","w","a","r","e">>
H_software_sp == <<" ","s","o","f","t","w","a","r","e">>
H_Software_Name == <<"S","o","f","t","w","a","r","e"," ","N","a","m","e">>
H_Component == <<"C","o","m","p","o","n","e","n","t">>
H_Name == <<"N","a","m","e">>
H_Item == <<"I","t","e","m">>
H_Product == <<"P","r","o","d","u","c","t">>
H_App_Name == <<"A","p","p"," ","\t","N","a","m","e">>
H_Foo == <<"F","o","o">>
H_Bar == <<"B","a","r">>
H_Version == <<"V","e","r","s","i","o","n">>
H_version == <<"v","e","r","s","i","o","n">>
H_Latest_Version == <<"l","a","t","e","s","t"," "," ","V","e","r","s","i","o","n">>
H_Current_Version == <<"C","u","r","r","e","n","t"," ","V","e","r","s","i","o","n"," ">>
H_Latest_as_of == <<"L","a","t","e","s","t"," ","V","e","r","s","i","o","n"," ","(","a","s"," ","o","f"," ","2","0","2","5",")">>
H_CATEGORY == <<"C","A","T","E","G","O","R","Y">>

MaxCols == 3
MaxRows == 2
MaxListRows == 3
MaxClock == 602

RECURSIVE SeqsUpTo(_, _)
SeqsUpTo(S, n) ==
  IF n = 0 THEN {<<>>}
  ELSE LET shorter == SeqsUpTo(S, n - 1)
       IN shorter \cup {Append(s, x) : s \in {t \in shorter : Len(t) = n - 1}, x \in S}

Distinct(s) == \A i, j \in DOMAIN s : i # j => s[i] # s[j]

HeaderPool ==
  {H_Software, H_software_sp, H_Software_Name, H_Component, H_Name, H_Item,
   H_Product, H_App_Name, H_Foo, H_Bar,
   H_Version, H_version, H_Latest_Version, H_Current_Version, H_Latest_as_of}

\* the header rows a workbook can have: read_excel keeps raw headers distinct
HeaderLists == {s \in SeqsUpTo(HeaderPool, MaxCols) : Distinct(s)}

\* rows of a sheet with an identity and a category column
RowPool ==
  {<<I_Widget, C_Util>>, <<I_widget, C_Dev>>, <<I_Gadget, C_util_sp>>,
   <<I_Wid_et, NaN>>, <<I_blank, C_Dev>>, <<NaN, C_Util>>}

Tables ==
  {[cols |-> <<H_software_sp, H_CATEGORY>>, rows |-> r] : r \in SeqsUpTo(RowPool, MaxRows)}

\* the frames given to unique_software: the catalog's rows and one more whose
\* identity has trailing white space, up to MaxListRows of them
ListTables ==
  {[cols |-> <<H_software_sp, H_CATEGORY>>, rows |-> r] :
     r \in SeqsUpTo(RowPool \cup {<<I_Widget_sp, C_Dev>>}, MaxListRows)}

\* the sheets of the load specification: two catalogs and one without any
\* identity header
LoadTables ==
  {[cols |-> <<H_Software>>, rows |-> <<(<<I_Widget>>)>>],
   [cols |-> <<H_Component>>, rows |-> <<(<<I_Gadget>>)>>],
   [cols |-> <<H_Foo, H_Bar>>, rows |-> <<(<<I_Widget, I_Gadget>>)>>]}

QueryPool == {<<>>, Q_wid, Q_GAD, Q_d_e, Q_na}

SecretSets ==
  {{}, {"DATA_URL"}, {"GITHUB_OWNER", "GITHUB_REPO", "GITHUB_PATH"},
   {"GITHUB_OWNER", "GITHUB_REPO"}, SecretKeys}

\* the cache timer's advances between interactions
Steps == {TTL - 1, TTL, TTL + 1}

\* --------------------------------------------------------- interactions

vars ==
  <<prog, hdrs, cols, npc, frame, listing, secrets, clock, cache, search_text,
    selected_software, selected_category, out, ev, fetches, remote, rec, links>>

normVars == <<hdrs, cols, npc>>
listVars == <<frame, listing>>
linkVars == <<rec, links>>
runVars ==
  <<secrets, clock, cache, search_text, selected_software, selected_category, out, ev,
    fetches, remote>>

Sess ==
  [text |-> search_text, selected_software |-> selected_software,
   selected_category |-> selected_category]

\* one interaction: the script run for widget event e on cache c0 and session
\* sess0, and, when that run ends in safe_rerun(), the run that follows it
Interact(T, c0, sess0, e, kind) ==
  LET src == DataSource(secrets)
  IN \E fo1 \in FetchOutcomes(T, src, c0, clock) :
       \E r1 \in {Script(prog, src, clock, c0, sess0, e, fo1)} :
         \E fo2 \in (IF r1.rerun THEN FetchOutcomes(T, src, r1.cache, clock)
                      ELSE {NoOutcome}) :
            \E r \in {IF r1.rerun
                     THEN Script(prog, src, clock, r1.cache, r1.sess, NoEvent, fo2)
                     ELSE r1} :
               /\ cache' = r.cache
               /\ search_text' = r.sess.text
               /\ selected_software' = r.sess.selected_software
               /\ selected_category' = r.sess.selected_category
               /\ out' = r.out
               /\ fetches' = IF r1.rerun THEN r1.fetches + r.fetches ELSE r1.fetches
               /\ ev' = kind
               /\ remote' = IF r1.rerun THEN fo2 ELSE fo1
               /\ UNCHANGED <<prog, secrets, clock, normVars, listVars, linkVars>>

\* a run with no widget event: the first run of the session, or the menu's Rerun
Rerun(T) == Interact(T, cache, Sess, NoEvent, "rerun")

\* the user changes the text of the search box
TypeQuery(T) ==
  /\ out.grid
  /\ \E q \in QueryPool :
       /\ q # search_text
       /\ Interact(T, cache, [Sess EXCEPT !.text = q], NoEvent, "type")

\* the user presses "View details" (app.py) or "Details" (app_stable.py) on a card
ViewDetails(T) ==
  \E i \in Range(out.cards) :
    Interact(T, cache, Sess, [kind |-> "view", idx |-> i, cat |-> <<>>], "view")

\* "Clear selection": its on_click callback runs before the script
ClearSelection(T) ==
  /\ prog = "app"
  /\ out.clear
  /\ Interact(T, cache, [Sess EXCEPT !.selected_software = None], NoEvent, "clear")

\* the user presses a category chip of app_stable.py
PickCategory(T) ==
  /\ prog = "stable"
  /\ \E c \in out.chips :
       Interact(T, cache, Sess, [kind |-> "chip", idx |-> 0, cat |-> c], "chip")

\* the sidebar's "Refresh data": st.cache_data.clear(), then safe_rerun()
Refresh(T) ==
  /\ ev # "init"
  /\ Interact(T, ClearCache(cache), Sess, NoEvent, "refresh")

\* time passes between interactions
Tick ==
  /\ \E d \in Steps : clock + d <= MaxClock /\ clock' = clock + d
  /\ UNCHANGED <<prog, normVars, listVars, linkVars, secrets, cache, search_text,
                 selected_software, selected_category, out, ev, fetches, remote>>

NormIdle == hdrs = <<>> /\ cols = <<>> /\ npc = "idle"
ListIdle == frame = EmptyTable /\ listing = <<>>
LinkIdle == rec = <<>> /\ links = <<>>

\* a new session of a freshly started server: nothing cached, nothing rendered
RunInit ==
  /\ clock = 0
  /\ cache = EmptyCache
  /\ search_text = <<>>
  /\ selected_software = None
  /\ selected_category = S_All
  /\ out = ErrOut("none", "none")
  /\ ev = "init"
  /\ fetches = 0
  /\ remote = NoOutcome

RunIdle == secrets = {} /\ RunInit

\* ----------------------------------- specification: browsing the catalog

Init ==
  /\ prog \in Programs
  /\ secrets = {"DATA_URL"}
  /\ RunInit
  /\ NormIdle
  /\ ListIdle
  /\ LinkIdle

Next ==
  \/ Rerun(Tables)
  \/ TypeQuery(Tables)
  \/ ViewDetails(Tables)
  \/ ClearSelection(Tables)
  \/ PickCategory(Tables)

Spec == Init /\ [][Next]_vars

\* ------------------------------------- specification: loading and cache

InitLoad ==
  /\ prog \in Programs
  /\ secrets \in SecretSets
  /\ RunInit
  /\ NormIdle
  /\ ListIdle
  /\ LinkIdle

NextLoad ==
  \/ Rerun(LoadTables)
  \/ Refresh(LoadTables)
  \/ Tick

SpecLoad == InitLoad /\ [][NextLoad]_vars

\* ---------------------------------------- specification: unique_software

InitList ==
  /\ prog = "app"
  /\ frame \in {[cols |-> coerce_to_software_column(StripColumns(t.cols)), rows |-> t.rows] :
                  t \in ListTables}
  /\ listing = <<>>
  /\ NormIdle
  /\ RunIdle
  /\ LinkIdle

ListIdentities ==
  /\ listing' = <<unique_software(frame)>>
  /\ UNCHANGED <<prog, frame, normVars, runVars, linkVars>>

NextList == ListIdentities

SpecList == InitList /\ [][NextList]_vars

\* --------------------------------------------- specification: normalise

InitNorm ==
  /\ prog \in Programs
  /\ hdrs \in HeaderLists
  /\ cols = hdrs
  /\ npc = "raw"
  /\ ListIdle
  /\ RunIdle
  /\ LinkIdle

\* lines "df.columns = [...strip...]; df = coerce_to_...(df)" of either script
Normalize ==
  /\ npc = "raw"
  /\ cols' = Coerce(prog, StripColumns(hdrs))
  /\ npc' = "coerced"
  /\ UNCHANGED <<prog, hdrs, listVars, runVars, linkVars>>

NextNorm == Normalize

SpecNorm == InitNorm /\ [][NextNorm]_vars

\* ----------------------------------- specification: download links

P_http == <<"h","t","t","p",":","/","/">>
P_https == <<"h","t","t","p","s",":","/","/">>

\* url.lower().startswith(("http://", "https://"))
HasWebScheme(u) ==
  \E l \in {StrLower(u)} : StartsWith(l, P_http) \/ StartsWith(l, P_https)

\* Python's "v or ''": the value when it is truthy, else the empty string
OrEmpty(v) == IF Truthy(v) THEN v ELSE <<>>

\* app.py details panel: url = str(base.get("Download URL") or "").strip();
\* a link_button for a web url, else st.warning("No valid Download URL found.")
AppPanelLinks(r) ==
  Pick({[at |-> "panel",
         url |-> IF HasWebScheme(url) THEN "link" ELSE "warning",
         win |-> "unused", mac |-> "unused"] :
          url \in {Strip(AsStr(OrEmpty(r.url)))}})

\* app_stable.py link_button: True when it rendered the link
link_button(url) ==
  Pick({url_s # <<>> /\ HasWebScheme(url_s) : url_s \in {Strip(OrEmpty(url))}})

\* app_stable.py result panel: (rec.get(...) or "").strip() has no str() around
\* it and raises on a NaN cell, before anything of the buttons is rendered
StablePanelLinks(r) ==
  IF OrEmpty(r.win) = NaN \/ OrEmpty(r.mac) = NaN
  THEN [at |-> "panel", url |-> "unused", win |-> "error", mac |-> "error"]
  ELSE Pick({[at |-> "panel", url |-> "unused",
              win |-> IF link_button(w) THEN "link" ELSE "blank",
              mac |-> IF m # <<>>
                      THEN (IF link_button(m) THEN "link" ELSE "nothing")
                      ELSE "blank"] :
               w \in {Strip(OrEmpty(r.win))}, m \in {Strip(OrEmpty(r.mac))}})

\* app_stable.py card: wurl = str(row.get("WindowsURL") or "").strip(), the same
\* for macOS; the Windows button's result is not looked at
StableCardLinks(r) ==
  Pick({[at |-> "card", url |-> "unused",
         win |-> IF link_button(wurl) THEN "link" ELSE "nothing",
         mac |-> IF murl # <<>>
                 THEN (IF link_button(murl) THEN "link" ELSE "nothing")
                 ELSE "blank"] :
          wurl \in {Strip(AsStr(OrEmpty(r.win)))},
          murl \in {Strip(AsStr(OrEmpty(r.mac)))}})

U_http == <<"h","t","t","p",":","/","/","a">>
U_HTTPS_sp == <<" ","H","T","T","P","S",":","/","/","a"," ">>
U_ftp == <<"f","t","p",":","/","/","a">>
U_www == <<"w","w","w",".","a">>

\* the URL cells a sheet can hold: missing (NaN), absent column (None), empty,
\* blank, and texts with and without a web scheme
UrlPool == {NaN, None, <<>>, I_blank, U_http, U_HTTPS_sp, U_ftp, U_www}

InitLink ==
  /\ prog \in Programs
  /\ rec \in IF prog = "app"
             THEN {[url |-> u, win |-> None, mac |-> None] : u \in UrlPool}
             ELSE {[url |-> None, win |-> w, mac |-> m] : w \in UrlPool, m \in UrlPool}
  /\ links = <<>>
  /\ NormIdle
  /\ ListIdle
  /\ RunIdle

\* the details panel (app.py) or result panel (app_stable.py) of the record
RenderPanel ==
  /\ links' = IF prog = "app" THEN AppPanelLinks(rec) ELSE StablePanelLinks(rec)
  /\ UNCHANGED <<prog, rec, normVars, listVars, runVars>>

\* the record's card in the grid of app_stable.py
RenderCard ==
  /\ prog = "stable"
  /\ links' = StableCardLinks(rec)
  /\ UNCHANGED <<prog, rec, normVars, listVars, runVars>>

NextLink ==
  \/ RenderPanel
  \/ RenderCard

SpecLink == InitLink /\ [][NextLink]_vars

\* ------------------------------------------------------------ claims: C1

\* the identity rule as the specification words it: tier 1, tier 2, then the
\* listed alternatives in order
SpecIdentityRule ==
  <<{K_software, K_software_name}, {K_component}, {K_name}, {K_item}, {K_asset},
    {K_module}, {K_service}, {K_application}, {K_app_name}, {K_product}>>

SpecTiers(cs) ==
  {t \in DOMAIN SpecIdentityRule :
     \E i \in DOMAIN cs : normalize_col(cs[i]) \in SpecIdentityRule[t]}

\* C1: for every header row, the columns named "Software" after coercion are
\* headers of the first tier of the specified priority rule that any header
\* matches, and there is none when no tier matches.
C1_IdentityByPriority ==
  npc = "coerced" =>
    LET cs == StripColumns(hdrs)
        tiers == SpecTiers(cs)
        chosen == {i \in DOMAIN cols : cols[i] = N_Software}
    IN IF tiers = {} THEN chosen = {}
       ELSE /\ chosen # {}
            /\ \A i \in chosen :
                 normalize_col(cs[i]) \in
                   SpecIdentityRule[CHOOSE t \in tiers : \A u \in tiers : t <= u]

\* ------------------------------------------------------- claims: C2 - C4

\* the identity cells of the table the last run worked on
Identities == Column(out.df, N_Software)

\* the rows of that table whose identity equals v when case is ignored
SameIdentity(v) ==
  {r \in DOMAIN Identities :
     ~IsNA(Identities[r]) /\ StrLower(Identities[r]) = StrLower(AsStr(v))}

\* every record of the table has an identity that is not empty when trimmed
AllIdentified ==
  \A r \in DOMAIN Identities : ~IsNA(Identities[r]) /\ Strip(Identities[r]) # <<>>

\* C2: in a table whose records all have an identity, whatever the search text
\* and the category filter are, the details resolved for the identity stored
\* by a record's details button contain that record.
C2_DetailContainsRecord ==
  (out.grid /\ AllIdentified) =>
    \A r \in DOMAIN Identities :
      (~IsNA(Identities[r]) /\ selected_software = Identities[r])
        => r \in Range(out.detail)

\* C3: in a table whose records all have an identity, the details resolved for
\* the selected identity are all the records whose identity equals it ignoring
\* case, in table order.
C3_AllMatchesInTableOrder ==
  (out.grid /\ AllIdentified /\ Truthy(selected_software)) =>
    out.detail = FilterSeq(RowIndex(Len(out.df.rows)), SameIdentity(selected_software))

\* C4: no record of the table that the grid, the search and the details work
\* on has a missing identity or one that is empty after trimming.
C4_IdentityNeverEmpty == out.grid => AllIdentified

\* ------------------------------------------------------------ claims: C5

\* the table the last run loaded, when it loaded one: the fetched table, which
\* the cache then holds, or the entry it was served
LoadedTable ==
  ev # "init" /\ DataSource(secrets) # "none" /\ remote.kind \in {"ok", "unused"}

NothingRendered ==
  /\ ~out.grid
  /\ out.cards = <<>>
  /\ out.shown = 0
  /\ out.total = 0
  /\ out.panel = "off"
  /\ out.detail = <<>>
  /\ ~out.footer

\* C5: a run whose loaded table has no header matching an identity rule shows
\* the configuration error and renders no grid, counts, details or footer.
C5_NoIdentityStops ==
  (LoadedTable /\ SpecTiers(StripColumns(cache.table.cols)) = {}) =>
    out.err = "identity" /\ NothingRendered

C5_Witness ==
  /\ LoadedTable
  /\ cache.table.cols = <<H_Foo, H_Bar>>
  /\ out.err = "identity"

\* ------------------------------------------------------------ claims: C6

\* s contains sub as a contiguous run of characters
Contains(s, sub) ==
  \E i \in 1..(Len(s) - Len(sub) + 1) : SubSeq(s, i, i + Len(sub) - 1) = sub

\* the matching predicate on row r, for the trimmed query and the chosen
\* category; categories are compared trimmed, as the chips show them
Matches(r) ==
  LET q == Strip(search_text)
      cats == Column(out.df, N_Category)
  IN /\ q # <<>> =>
          ~IsNA(Identities[r]) /\ Contains(StrLower(Identities[r]), StrLower(q))
     /\ (prog = "stable" /\ selected_category # S_All) =>
          /\ ~IsNA(cats[r])
          /\ StrLower(Strip(cats[r])) = StrLower(Strip(selected_category))

\* C6: the cards of the grid are exactly the records that satisfy the matching
\* predicate: identity contains the query as literal text ignoring case, and
\* category equals the chosen one ignoring case unless it is "All".
C6_FilterIsPredicate ==
  out.grid =>
    Range(out.cards) = {r \in DOMAIN Identities : Matches(r)}

\* ------------------------------------------------------------ claims: C7

\* C7: unique_software returns the distinct trimmed non-empty identities of
\* the table, each once, in strictly ascending order.
C7_UniqueSoftware ==
  listing # <<>> =>
    LET u == listing[1]
        ids == Column(frame, N_Software)
        want == {Strip(ids[r]) : r \in {x \in DOMAIN ids : ~IsNA(ids[x])}} \ {<<>>}
    IN /\ Range(u) = want
       /\ Len(u) = Cardinality(want)
       /\ \A i \in 1..(Len(u) - 1) : StrLess(u[i], u[i + 1])

C7_Witness ==
  /\ listing # <<>>
  /\ listing[1] = <<I_Widget>>
  /\ Column(frame, N_Software) = <<I_Widget_sp, I_blank, I_Widget>>

\* ------------------------------------------------------ claims: C8 - C10

\* the table a run works on when it was given table t
Prepared(t) == [cols |-> Coerce(prog, StripColumns(t.cols)), rows |-> t.rows]

\* C8: a run made less than 300 seconds after the entry was stored fetches
\* nothing and works on the stored table; a run made later, or with nothing
\* stored, fetches exactly once, and a successful fetch replaces the entry.
C8_TimeBoxedCache ==
  [][(ev' = "rerun" /\ clock' = clock /\ DataSource(secrets) # "none") =>
       IF cache.full /\ clock - cache.at < TTL
       THEN /\ fetches' = 0
            /\ remote'.kind = "unused"
            /\ cache' = cache
            /\ out'.err # "load"
            /\ out'.err = "none" => out'.df = Prepared(cache.table)
       ELSE /\ fetches' = 1
            /\ remote'.kind # "unused"
            /\ remote'.kind = "ok" =>
                 /\ cache' = [full |-> TRUE, table |-> remote'.table, at |-> clock]
                 /\ out'.err = "none" => out'.df = Prepared(remote'.table)]_vars

C8_Witness ==
  /\ ev = "rerun"
  /\ fetches = 0
  /\ out.err = "none"
  /\ cache.full
  /\ clock = cache.at + TTL - 1

\* C9: a run started by Refresh fetches exactly once whatever the age of the
\* entry, and a successful fetch becomes the entry and the table worked on.
C9_RefreshRefetches ==
  [][(ev' = "refresh" /\ clock' = clock /\ DataSource(secrets) # "none") =>
       /\ fetches' = 1
       /\ remote'.kind # "unused"
       /\ remote'.kind = "ok" =>
            /\ cache' = [full |-> TRUE, table |-> remote'.table, at |-> clock]
            /\ out'.err = "none" => out'.df = Prepared(remote'.table)]_vars

C9_Witness ==
  /\ ev = "refresh"
  /\ fetches = 1
  /\ remote.kind = "ok"
  /\ out.err = "none"
  /\ cache = [full |-> TRUE, table |-> remote.table, at |-> clock]
  /\ clock = TTL - 1

\* C10: a run whose fetch failed made that one attempt only, shows the error
\* and renders nothing, whether or not an older table is still stored.
C10_FailureIsTerminal ==
  remote.kind \in {"transport", "status", "workbook", "shape"} =>
    /\ fetches = 1
    /\ out.err = "load"
    /\ out.msg = remote.kind
    /\ out.df = EmptyTable
    /\ NothingRendered

C10_Witness ==
  /\ remote.kind = "status"
  /\ out.err = "load"
  /\ cache.full
  /\ clock >= cache.at + TTL

\* ----------------------------------------------------------- claims: C11

UrlResolvable == "DATA_URL" \in secrets
ApiResolvable == {"GITHUB_OWNER", "GITHUB_REPO", "GITHUB_PATH"} \subseteq secrets

\* the run reported that no source is configured and loaded nothing
ConfigurationError ==
  /\ out.err \in {"config", "load"}
  /\ out.msg = "noconfig"
  /\ fetches = 0
  /\ remote.kind = "unused"
  /\ ~cache.full
  /\ out.df = EmptyTable
  /\ NothingRendered

\* C11: unless exactly one of the two source configurations is resolvable, a
\* run reports a configuration error and loads no data.
C11_ExactlyOneSource ==
  (ev # "init" /\ (UrlResolvable <=> ApiResolvable)) => ConfigurationError

\* C11 as amended: a run reports a configuration error and loads no data
\* exactly when neither configuration is resolvable; with both resolvable the
\* URL is the source, so the contents API's failure never shows.
C11_UrlFirst ==
  ev # "init" =>
    /\ (~UrlResolvable /\ ~ApiResolvable) <=> ConfigurationError
    /\ (UrlResolvable \/ ApiResolvable) =>
         /\ out.msg # "noconfig"
         /\ remote.kind # "unused" \/ cache.full
    /\ UrlResolvable => remote.kind # "shape"

C11_Witness ==
  /\ UrlResolvable
  /\ ApiResolvable
  /\ fetches = 1
  /\ remote.kind = "ok"
  /\ out.err = "none"

\* ----------------------------------------------------------- claims: C12

\* the headers the version rule of the specification admits: the dated ones
\* when there are any, else those of the first of "version", "latest version",
\* "current version" that some header has as its key
SpecVersionChoice(cs) ==
  LET nk == [i \in DOMAIN cs |-> normalize_col(cs[i])]
      dated == {i \in DOMAIN cs : StartsWith(nk[i], K_latest_version_as_of)}
      named == {k \in DOMAIN VersionKeys : \E i \in DOMAIN cs : nk[i] = VersionKeys[k]}
  IN IF dated # {} THEN dated
     ELSE IF named = {} THEN {}
     ELSE {i \in DOMAIN cs : nk[i] = VersionKeys[CHOOSE k \in named : \A j \in named : k <= j]}

\* C12: the column used as "Version" is a dated "latest version (as of" header
\* when one exists, else the header with key "version", else "latest version",
\* else "current version"; there is none when no header matches.
C12_VersionByPriority ==
  npc = "coerced" =>
    LET want == SpecVersionChoice(StripColumns(hdrs))
    IN IF want = {} THEN \A i \in DOMAIN cols : cols[i] # N_Version
       ELSE \E i \in want : cols[i] = N_Version

\* ----------------------------------------------------------- claims: C15

\* C15: when the headers are pairwise distinct after stripping, no two columns
\* of the normalised table carry the same name.
C15_ColumnNamesDistinct ==
  (npc = "coerced" /\ Distinct(StripColumns(hdrs))) => Distinct(cols)

\* ----------------------------------------------------------- claims: C13

\* a non-empty text that after trimming starts with http:// or https://
ValidLink(v) ==
  /\ ~IsNA(v)
  /\ v # <<>>
  /\ \E u \in {StrLower(Strip(v))} : StartsWith(u, P_http) \/ StartsWith(u, P_https)

\* what is rendered for value v is the link when v is valid, and otherwise
\* something that is neither a link nor a failure of the run
LinkRule(v, shown) ==
  IF ValidLink(v) THEN shown = "link" ELSE shown \in {"warning", "blank", "nothing"}

\* C13: a download link is rendered exactly for a value that is a non-empty
\* text starting, after trimming, with http:// or https:// in any case; for
\* every other value the place of the link is rendered without one.
C13_LinkOnlyWhenValid ==
  links # <<>> =>
    IF prog = "app" THEN LinkRule(rec.url, links.url)
    ELSE LinkRule(rec.win, links.win) /\ LinkRule(rec.mac, links.mac)

\* ----------------------------------------------------------- claims: C16

\* the titles of the cards that were on the page
CardTitles == {AsStr(Identities[r]) : r \in Range(out.cards)}

====
